---- MODULE Spec2Model ----
(***************************************************************************)
(* SSHChic (src/src/main.rs): a coordinator thread (main), num_threads     *)
(* worker threads running find_ssh_keys, and the Ctrl+C handler thread,    *)
(* sharing the atomic flag `running` and the atomic counter COUNTER.       *)
(* Every atomic access in the source is SeqCst, so each load, store and    *)
(* fetch_add is one indivisible step of the model.                         *)
(***************************************************************************)
EXTENDS Integers, FiniteSets, Sequences, TLC

(* ------------------------------ bounds -------------------------------- *)
\* num_cpus::get() (main.rs:392): the number of worker threads.
num_threads == 2
\* Cap on the loop iterations all workers start together (the source has none).
MaxAttempts == 2
\* The keypairs rand::random() can produce are numbered 1..NumKeys.
NumKeys == 3

Workers == 1..num_threads
Keys == 1..NumKeys

VARIABLES
    args,              \* Args: [streaming, fingerprint, regex_ok]
    mpc,               \* position of main
    exit_code,         \* NoExit while the process lives, else its exit status
    running,           \* Arc<AtomicBool>
    COUNTER,           \* static AtomicI64
    handler_installed, \* ctrlc::set_handler has succeeded
    handles,           \* number of JoinHandles pushed by the spawn loop
    joined,            \* number of handles the join loop has consumed
    old_counter,       \* monitor local
    avg_key_rate,      \* monitor local (f64), in units of 1/RateScale
    wpc,               \* position of each worker in find_ssh_keys
    key,               \* the keypair a worker holds in this iteration (0: none)
    id_ed25519,        \* content of file "id_ed25519"
    id_ed25519_pub,    \* content of file "id_ed25519.pub"
    reports,           \* number of "Match found!" reports printed
    done_reported,     \* "Done!" has been printed
    \* history variables (observers, read by no action's guard)
    attempts,          \* loop iterations entered, all workers together
    matches,           \* iterations whose match target satisfied the pattern
    interrupted,       \* the Ctrl+C handler has run at least once
    clearedBy,         \* who changed running from TRUE to FALSE
    persisters,        \* workers whose write of an output file has succeeded
    ticked,            \* the monitor has completed at least one tick
    delta_sum,         \* sum of the deltas fed to exp_moving_average so far
    written,           \* output files that some fs::write has written in full
    \* the inputs and the result of one call of exp_moving_average (EmaSpec)
    ema_in,
    ema_out

vars == << args, mpc, exit_code, running, COUNTER, handler_installed, handles,
           joined, old_counter, wpc, key, id_ed25519, id_ed25519_pub, reports,
           done_reported, attempts, matches, interrupted, clearedBy,
           persisters, avg_key_rate, ticked, delta_sum, written, ema_in,
           ema_out >>

rateVars == << avg_key_rate, ticked, delta_sum >>
emaVars == << ema_in, ema_out >>
mainVars == << mpc, exit_code, handler_installed, handles, joined, old_counter,
               done_reported, rateVars >>
fileVars == << id_ed25519, id_ed25519_pub, persisters, written >>
clearVars == << running, clearedBy >>

(* --------------------------- opaque helpers --------------------------- *)
\* exit_code while the process lives; Exit(n) once it has ended with status n.
NoExit == << >>
Exit(n) == << n >>
\* clearedBy: nobody yet, worker w's store (main.rs:307), the handler's store
\* (main.rs:387).
Nobody == << "nobody", 0 >>
ByWorker(w) == << "worker", w >>
Interrupt == << "interrupt", 0 >>
\* The two output files, by name (main.rs:305, 306).
PrivateFile == "id_ed25519"
PublicFile == "id_ed25519.pub"

Absent == << "absent", 0 >>
Partial == << "partial", 0 >>

\* get_authorized_key: the OpenSSH public key line of keypair k.
get_authorized_key(k) == << "ssh-ed25519", k >>

\* get_fingerprint: base64(SHA256(public key bytes)) of keypair k.
get_fingerprint(k) == << "sha256", k >>

\* PrivateKey::new(..).to_openssh(LineEnding::LF): the private key file text.
private_key_str(k) == << "openssh-private-key", k >>

\* The strings the compiled pattern accepts (Regex::is_match is a library call).
Pattern == { << "ssh-ed25519", 1 >>, << "ssh-ed25519", 2 >>,
             << "sha256", 2 >>, << "sha256", 3 >> }

is_match(target) == target \in Pattern

\* main.rs:267-271: the match target is selected by args.fingerprint.
matched(k) ==
    IF args.fingerprint THEN is_match(get_fingerprint(k))
                        ELSE is_match(get_authorized_key(k))

\* The process is alive: no thread runs after std::process::exit or after
\* main has returned or panicked.
alive == exit_code = NoExit

\* A worker thread has ended: find_ssh_keys returned or the thread panicked.
finished(w) == wpc[w] \in { "returned", "panicked" }

(* --------------------------- the rate estimator ------------------------ *)
\* f64 values are kept on a grid: a rate is a whole number of 1/RateScale
\* keys, a weight a whole number of 1/ExpScale. Every arithmetic operation
\* whose exact result is off the grid is rounded to the nearest grid point,
\* ties to even, as every f64 operation is rounded to the nearest
\* representable value. Infinities and NaN inputs are left out.
RateScale == 2
ExpScale == 1024

\* `n as f64` (main.rs:419, 432): exact for the counts of the model.
to_f64(n) == n * RateScale

\* n / d rounded to the nearest integer, ties to even (IEEE 754 default).
round_ties_even(n, d) ==
    LET q == n \div d
        r == n % d
    IN  IF 2 * r < d THEN q
        ELSE IF 2 * r > d THEN q + 1
        ELSE IF q % 2 = 0 THEN q ELSE q + 1

\* (-delta_time / time_window).exp() of main.rs:359, as a weight. Times are
\* counted in units of ln 2 seconds and time windows in seconds, so that the
\* value is 2^-(delta_time / time_window); the model calls it where
\* time_window divides delta_time. Beyond the resolution it underflows to 0.
exp_neg(delta_time, time_window) == ExpScale \div (2 ^ (delta_time \div time_window))

\* main.rs:358-361: alpha = 1 - exp(-delta_time / time_window);
\* alpha * value + (1 - alpha) * old_value, each product rounded.
exp_moving_average(value, old_value, delta_time, time_window) ==
    LET alpha == ExpScale - exp_neg(delta_time, time_window)
    IN  round_ties_even(alpha * value, ExpScale)
          + round_ties_even((ExpScale - alpha) * old_value, ExpScale)

\* main.rs:435, the time window the monitor passes: 5.0 seconds.
monitor_time_window == 5

\* old_time.elapsed().as_secs_f64() (main.rs:416) at a tick: at least the
\* 250 ms of the sleep, more when the thread is scheduled late. The model
\* takes the tick one half-life after the previous one (5 ln 2 seconds).
Elapsed == { monitor_time_window }

\* ema_in / ema_out when exp_moving_average is not being called on its own.
NoCall == [ value |-> 0, old_value |-> 0, delta_time |-> 0,
            time_window |-> monitor_time_window ]
NoResult == << >>

(* -------------------------------- Init -------------------------------- *)
\* The state of the process when main is entered, whatever the arguments.
Start ==
    /\ mpc = "compile"
    /\ exit_code = NoExit
    /\ running = TRUE
    /\ COUNTER = 0
    /\ handler_installed = FALSE
    /\ handles = 0
    /\ joined = 0
    /\ old_counter = 0
    /\ wpc = [ w \in Workers |-> "unspawned" ]
    /\ key = [ w \in Workers |-> 0 ]
    /\ id_ed25519 = Absent
    /\ id_ed25519_pub = Absent
    /\ reports = 0
    /\ done_reported = FALSE
    /\ attempts = 0
    /\ matches = 0
    /\ interrupted = FALSE
    /\ clearedBy = Nobody
    /\ persisters = {}
    /\ avg_key_rate = 0
    /\ ticked = FALSE
    /\ delta_sum = 0
    /\ written = {}

Init ==
    /\ args \in [ streaming : BOOLEAN, fingerprint : BOOLEAN, regex_ok : BOOLEAN ]
    /\ Start
    /\ ema_in = NoCall
    /\ ema_out = NoResult

(* ------------------ the store of false into `running` ------------------ *)
\* running.store(false, SeqCst) by `who`: main.rs:307 (a worker) and
\* main.rs:387 (the handler). A plain store: it does not look at the old value.
\* A store that writes the negation of what it reads instead of false.
StoreToggle(who) ==
    /\ running' = ~running
    /\ clearedBy' = IF running THEN who ELSE clearedBy

StoreFalse(who) ==
    /\ running' = FALSE
    /\ clearedBy' = IF running THEN who ELSE clearedBy

(* ------------------------- worker: find_ssh_keys ---------------------- *)
\* A loop that tests the flag only before its first iteration.
LoopCheck_once(w) ==
    /\ alive
    /\ wpc[w] = "loop"
    /\ IF running \/ COUNTER > 0
         THEN /\ attempts < MaxAttempts
              /\ wpc' = [ wpc EXCEPT ![w] = "count" ]
              /\ attempts' = attempts + 1
         ELSE /\ wpc' = [ wpc EXCEPT ![w] = "returned" ]
              /\ attempts' = attempts
    /\ UNCHANGED << args, emaVars, mainVars, clearVars, COUNTER, key, fileVars, reports,
                    matches, interrupted >>

\* main.rs:261, while running.load(SeqCst): enter the body or leave the loop.
LoopCheck(w) ==
    /\ alive
    /\ wpc[w] = "loop"
    /\ IF running
         THEN /\ attempts < MaxAttempts
              /\ wpc' = [ wpc EXCEPT ![w] = "count" ]
              /\ attempts' = attempts + 1
         ELSE /\ wpc' = [ wpc EXCEPT ![w] = "returned" ]
              /\ attempts' = attempts
    /\ UNCHANGED << args, emaVars, mainVars, clearVars, COUNTER, key, fileVars, reports,
                    matches, interrupted >>

\* An increment that is lost when it lands on the value 1 (a load and a
\* store in place of one read-modify-write).
fetch_add_lost(c) == IF c = 1 THEN c ELSE c + 1

\* AtomicI64::fetch_add(1): the new value of the counter.
fetch_add(c) == c + 1

\* main.rs:263-273, COUNTER.fetch_add(1, SeqCst), then generate_key_pair and
\* the pattern test (both local to the thread): on a match the body goes on
\* to the report, otherwise the iteration ends and the keypair is dropped.
Count(w) ==
    /\ alive
    /\ wpc[w] = "count"
    /\ COUNTER' = fetch_add(COUNTER)
    /\ \E k \in Keys :
         IF matched(k)
           THEN /\ key' = [ key EXCEPT ![w] = k ]
                /\ matches' = matches + 1
                /\ wpc' = [ wpc EXCEPT ![w] = "report" ]
           ELSE /\ key' = [ key EXCEPT ![w] = 0 ]
                /\ matches' = matches
                /\ wpc' = [ wpc EXCEPT ![w] = "loop" ]
    /\ UNCHANGED << args, emaVars, mainVars, clearVars, fileVars, reports, attempts,
                    interrupted >>

\* The streaming test left out: every match is persisted.
persists_always == TRUE

\* main.rs:304, if !args.streaming: the match is persisted.
persists == ~args.streaming

\* A report that ends the search on every match, streaming or not.
Report_stop(w) ==
    /\ alive
    /\ wpc[w] = "report"
    /\ reports' = reports + 1
    /\ IF persists
         THEN /\ wpc' = [ wpc EXCEPT ![w] = "write_private" ]
              /\ key' = key
              /\ UNCHANGED clearVars
         ELSE /\ wpc' = [ wpc EXCEPT ![w] = "returned" ]
              /\ key' = [ key EXCEPT ![w] = 0 ]
              /\ StoreFalse(ByWorker(w))
    /\ UNCHANGED << args, emaVars, mainVars, COUNTER, fileVars, attempts,
                    matches, interrupted >>

\* A match that goes on to the streaming test without being printed.
Report_silent(w) ==
    /\ alive
    /\ wpc[w] = "report"
    /\ reports' = reports
    /\ IF persists
         THEN /\ wpc' = [ wpc EXCEPT ![w] = "write_private" ]
              /\ key' = key
         ELSE /\ wpc' = [ wpc EXCEPT ![w] = "loop" ]
              /\ key' = [ key EXCEPT ![w] = 0 ]
    /\ UNCHANGED << args, emaVars, mainVars, clearVars, COUNTER, fileVars, attempts,
                    matches, interrupted >>

\* main.rs:274-304, the report of the match, then the streaming test.
Report(w) ==
    /\ alive
    /\ wpc[w] = "report"
    /\ reports' = reports + 1
    /\ IF persists
         THEN /\ wpc' = [ wpc EXCEPT ![w] = "write_private" ]
              /\ key' = key
         ELSE /\ wpc' = [ wpc EXCEPT ![w] = "loop" ]
              /\ key' = [ key EXCEPT ![w] = 0 ]
    /\ UNCHANGED << args, emaVars, mainVars, clearVars, COUNTER, fileVars, attempts,
                    matches, interrupted >>

\* PrivateKey::new and to_openssh (main.rs:291-297) are given a well-formed
\* unencrypted Ed25519 keypair and always succeed; the expects that can fail
\* are those on fs::write. A panic unwinds the worker's thread only (Rust's
\* default): the other threads go on.
\* main.rs:305, fs::write("id_ed25519", private_key_str).expect(..): the file
\* is replaced, or the write fails (the file is left as it was or truncated)
\* and the thread panics.
WritePrivate(w) ==
    /\ alive
    /\ wpc[w] = "write_private"
    /\ \/ /\ id_ed25519' = private_key_str(key[w])
          /\ persisters' = persisters \cup { w }
          /\ written' = written \cup { PrivateFile }
          /\ wpc' = [ wpc EXCEPT ![w] = "write_public" ]
       \/ /\ id_ed25519' \in { id_ed25519, Partial }
          /\ persisters' = persisters
          /\ written' = written
          /\ wpc' = [ wpc EXCEPT ![w] = "panicked" ]
    /\ UNCHANGED << args, emaVars, mainVars, clearVars, COUNTER, key, id_ed25519_pub,
                    reports, attempts, matches, interrupted >>

\* A worker that goes on to clear the flag without writing the public key.
WritePublic_skipped(w) ==
    /\ alive
    /\ wpc[w] = "write_public"
    /\ wpc' = [ wpc EXCEPT ![w] = "store" ]
    /\ UNCHANGED << args, emaVars, mainVars, clearVars, COUNTER, key, fileVars,
                    reports, attempts, matches, interrupted >>

\* main.rs:306, fs::write("id_ed25519.pub", public_key_str).expect(..).
WritePublic(w) ==
    /\ alive
    /\ wpc[w] = "write_public"
    /\ \/ /\ id_ed25519_pub' = get_authorized_key(key[w])
          /\ persisters' = persisters \cup { w }
          /\ written' = written \cup { PublicFile }
          /\ wpc' = [ wpc EXCEPT ![w] = "store" ]
       \/ /\ id_ed25519_pub' \in { id_ed25519_pub, Partial }
          /\ persisters' = persisters
          /\ written' = written
          /\ wpc' = [ wpc EXCEPT ![w] = "panicked" ]
    /\ UNCHANGED << args, emaVars, mainVars, clearVars, COUNTER, key, id_ed25519,
                    reports, attempts, matches, interrupted >>

\* main.rs:307-308, running.store(false, SeqCst); break.
Store(w) ==
    /\ alive
    /\ wpc[w] = "store"
    /\ StoreFalse(ByWorker(w))
    /\ wpc' = [ wpc EXCEPT ![w] = "returned" ]
    /\ UNCHANGED << args, emaVars, mainVars, COUNTER, key, fileVars, reports, attempts,
                    matches, interrupted >>

find_ssh_keys(w) ==
    \/ LoopCheck(w) \/ Count(w) \/ Report(w)
    \/ WritePrivate(w) \/ WritePublic(w) \/ Store(w)

(* ------------------------- the Ctrl+C handler ------------------------- *)
\* A handler that also resets the counter.
CtrlC_reset ==
    /\ alive
    /\ handler_installed
    /\ StoreFalse(Interrupt)
    /\ interrupted' = TRUE
    /\ COUNTER' = 0
    /\ UNCHANGED << args, emaVars, mainVars, wpc, key, fileVars, reports,
                    attempts, matches >>

\* main.rs:386-388, the closure given to ctrlc::set_handler.
CtrlC ==
    /\ alive
    /\ handler_installed
    /\ StoreFalse(Interrupt)
    /\ interrupted' = TRUE
    /\ UNCHANGED << args, emaVars, mainVars, COUNTER, wpc, key, fileVars, reports,
                    attempts, matches >>

workerVars == << wpc, key, fileVars, reports, attempts, matches >>

(* ------------------------------- main --------------------------------- *)
\* A compile step that goes on whatever Regex::new returned.
Compile_unchecked ==
    /\ alive
    /\ mpc = "compile"
    /\ mpc' = "install"
    /\ UNCHANGED << args, emaVars, clearVars, COUNTER, exit_code, handler_installed,
                    handles, joined, old_counter, rateVars, done_reported, workerVars,
                    interrupted >>

\* main.rs:373-379, Regex::new: on Err the process exits with status 1.
Compile ==
    /\ alive
    /\ mpc = "compile"
    /\ IF args.regex_ok
         THEN /\ mpc' = "install"
              /\ exit_code' = exit_code
         ELSE /\ mpc' = "exited"
              /\ exit_code' = Exit(1)
    /\ UNCHANGED << args, emaVars, clearVars, COUNTER, handler_installed, handles, joined,
                    old_counter, rateVars, done_reported, workerVars, interrupted >>

\* main.rs:386-389, ctrlc::set_handler(..).expect(..): installed, or main
\* panics (exit status 101).
Install ==
    /\ alive
    /\ mpc = "install"
    /\ \/ /\ handler_installed' = TRUE
          /\ mpc' = "spawn"
          /\ exit_code' = exit_code
       \/ /\ handler_installed' = FALSE
          /\ mpc' = "exited"
          /\ exit_code' = Exit(101)
    /\ UNCHANGED << args, emaVars, clearVars, COUNTER, handles, joined, old_counter, rateVars,
                    done_reported, workerVars, interrupted >>

\* main.rs:395-410, one thread::spawn per iteration; after the last one the
\* monitor's locals are initialised.
Spawn ==
    /\ alive
    /\ mpc = "spawn"
    /\ IF handles < num_threads
         THEN /\ handles' = handles + 1
              /\ wpc' = [ wpc EXCEPT ![handles + 1] = "loop" ]
              /\ mpc' = mpc
              /\ old_counter' = old_counter
         ELSE /\ handles' = handles
              /\ wpc' = wpc
              /\ mpc' = "monitor"
              /\ old_counter' = 0
    /\ UNCHANGED << args, emaVars, clearVars, COUNTER, exit_code, handler_installed,
                    joined, done_reported, rateVars, key, fileVars, reports,
                    attempts, matches, interrupted >>

\* A monitor loop that never looks at the flag.
MonitorCheck_deaf ==
    /\ alive
    /\ mpc = "monitor"
    /\ mpc' = "tick"
    /\ UNCHANGED << args, emaVars, clearVars, COUNTER, exit_code, handler_installed,
                    handles, joined, old_counter, rateVars, done_reported, workerVars,
                    interrupted >>

\* main.rs:413, while running.load(SeqCst).
MonitorCheck ==
    /\ alive
    /\ mpc = "monitor"
    /\ mpc' = IF running THEN "tick" ELSE "join"
    /\ UNCHANGED << args, emaVars, clearVars, COUNTER, exit_code, handler_installed,
                    handles, joined, old_counter, rateVars, done_reported, workerVars,
                    interrupted >>

\* A tick that feeds the estimator but keeps its old baseline.
Tick_stale ==
    /\ alive
    /\ mpc = "tick"
    /\ \E elapsed \in Elapsed :
         LET current_counter == COUNTER
             seeded == IF old_counter = 0 THEN to_f64(current_counter)
                                         ELSE avg_key_rate
         IN  /\ avg_key_rate' = exp_moving_average(
                                   to_f64(current_counter - old_counter),
                                   seeded, elapsed, monitor_time_window)
             /\ delta_sum' = delta_sum + (current_counter - old_counter)
             /\ old_counter' = old_counter
    /\ ticked' = TRUE
    /\ mpc' = "monitor"
    /\ UNCHANGED << args, emaVars, clearVars, COUNTER, exit_code, handler_installed,
                    handles, joined, done_reported, workerVars, interrupted >>

\* main.rs:414-438, one monitor tick: the sleep, the load of COUNTER, the
\* seeding of avg_key_rate when old_counter is 0 (418-420), the call of
\* exp_moving_average on the delta (431-436) and the update of old_counter
\* (437). The progress line (423-428) only displays these values.
Tick ==
    /\ alive
    /\ mpc = "tick"
    /\ \E elapsed \in Elapsed :
         LET current_counter == COUNTER
             seeded == IF old_counter = 0 THEN to_f64(current_counter)
                                         ELSE avg_key_rate
         IN  /\ avg_key_rate' = exp_moving_average(
                                   to_f64(current_counter - old_counter),
                                   seeded, elapsed, monitor_time_window)
             /\ delta_sum' = delta_sum + (current_counter - old_counter)
             /\ old_counter' = current_counter
    /\ ticked' = TRUE
    /\ mpc' = "monitor"
    /\ UNCHANGED << args, emaVars, clearVars, COUNTER, exit_code, handler_installed,
                    handles, joined, done_reported, workerVars, interrupted >>

\* A join loop that drops the handles without waiting for the threads.
Join_nowait ==
    /\ alive
    /\ mpc = "join"
    /\ IF joined < handles
         THEN /\ joined' = joined + 1
              /\ mpc' = mpc
         ELSE /\ joined' = joined
              /\ mpc' = "joined"
    /\ UNCHANGED << args, emaVars, clearVars, COUNTER, exit_code, handler_installed,
                    handles, old_counter, rateVars, done_reported, workerVars, interrupted >>

\* main.rs:442-444, handle.join().unwrap() for the next handle: blocks until
\* that thread has ended; unwrap panics (exit status 101) if it panicked.
Join ==
    /\ alive
    /\ mpc = "join"
    /\ IF joined < handles
         THEN /\ finished(joined + 1)
              /\ IF wpc[joined + 1] = "returned"
                   THEN /\ joined' = joined + 1
                        /\ mpc' = mpc
                        /\ exit_code' = exit_code
                   ELSE /\ joined' = joined
                        /\ mpc' = "exited"
                        /\ exit_code' = Exit(101)
         ELSE /\ joined' = joined
              /\ mpc' = "joined"
              /\ exit_code' = exit_code
    /\ UNCHANGED << args, emaVars, clearVars, COUNTER, handler_installed, handles,
                    old_counter, rateVars, done_reported, workerVars, interrupted >>

\* main.rs:446, println!("\nDone!") and the return from main (status 0).
Done ==
    /\ alive
    /\ mpc = "joined"
    /\ done_reported' = TRUE
    /\ mpc' = "exited"
    /\ exit_code' = Exit(0)
    /\ UNCHANGED << args, emaVars, clearVars, COUNTER, handler_installed, handles, joined,
                    old_counter, rateVars, workerVars, interrupted >>

main == Compile \/ Install \/ Spawn \/ MonitorCheck \/ Tick \/ Join \/ Done

\* The coordinator's state of spec section 4.3, read off the position of main:
\* Idle (compile, handler, spawn loop), Running (monitor loop), ShuttingDown
\* (join loop), Joined (all handles consumed), Terminated (Done! printed and
\* main returned); Aborted is an exit by std::process::exit(1) or a panic.
Idle == "Idle"
Running == "Running"
ShuttingDown == "ShuttingDown"
Joined == "Joined"
Terminated == "Terminated"
Aborted == "Aborted"

state ==
    CASE mpc \in { "compile", "install", "spawn" } -> Idle
      [] mpc \in { "monitor", "tick" } -> Running
      [] mpc = "join" -> ShuttingDown
      [] mpc = "joined" -> Joined
      [] mpc = "exited" -> IF done_reported THEN Terminated ELSE Aborted

\* Loop iterations entered whose fetch_add has not been executed yet.
CountPending == Cardinality({ w \in Workers : wpc[w] = "count" })

\* A worker (or main) has hit a failed expect/unwrap: a fatal I/O failure.
io_failed ==
    \/ \E w \in Workers : wpc[w] = "panicked"
    \/ exit_code = Exit(101)

(* --------------------------- specifications --------------------------- *)
Next ==
    \/ Compile \/ Install \/ Spawn \/ MonitorCheck \/ Tick \/ Join \/ Done
    \/ CtrlC
    \/ \E w \in Workers : LoopCheck(w)
    \/ \E w \in Workers : Count(w)
    \/ \E w \in Workers : Report(w)
    \/ \E w \in Workers : WritePrivate(w)
    \/ \E w \in Workers : WritePublic(w)
    \/ \E w \in Workers : Store(w)

Spec == Init /\ [][Next]_vars

\* The operating system schedules every thread that can run: main and each
\* worker keep taking steps. Ctrl+C is the user's choice and is not forced.
\* Shutdown does not depend on which string the pattern is tested against,
\* so the fair runs are those matching the public key (args.fingerprint
\* unset); Spec covers both match targets.
FairInit == Init /\ ~args.fingerprint

FairSpec ==
    /\ FairInit
    /\ [][Next]_vars
    /\ WF_vars(main)
    /\ \A w \in Workers : WF_vars(find_ssh_keys(w))

(* ------------------- exp_moving_average on its own -------------------- *)
\* The arguments of one call: rates on the grid up to MaxRate, a time window
\* of 1 second or the monitor's, and an elapsed time of 0 to MaxHalfLives
\* half-lives of that window.
MaxRate == 3
MaxHalfLives == 2
Windows == { 1, monitor_time_window }

EmaInputs ==
    { [ value |-> v, old_value |-> o, delta_time |-> h * tw, time_window |-> tw ] :
        v \in 0..MaxRate, o \in 0..MaxRate, h \in 0..MaxHalfLives, tw \in Windows }

EmaInit ==
    /\ args = [ streaming |-> FALSE, fingerprint |-> FALSE, regex_ok |-> TRUE ]
    /\ Start
    /\ ema_in \in EmaInputs
    /\ ema_out = NoResult

\* main.rs:358-361, one call of exp_moving_average: it reads its four
\* arguments and returns a value; it touches nothing else.
Estimate ==
    /\ ema_out = NoResult
    /\ ema_out' = << exp_moving_average(ema_in.value, ema_in.old_value,
                                        ema_in.delta_time, ema_in.time_window) >>
    /\ UNCHANGED << args, mainVars, clearVars, COUNTER, workerVars, interrupted,
                    ema_in >>

EmaNext == Estimate

EmaSpec == EmaInit /\ [][EmaNext]_vars

(* ------------------------------- claims ------------------------------- *)

\* C1: at most one worker executes the persist step (a write of id_ed25519
\* or id_ed25519.pub) during the whole run.
C1_ExactlyOneWinner == Cardinality(persisters) <= 1

\* C2: only the worker whose own store changed running from TRUE to FALSE
\* persists its keypair, and no worker writes an output file once running
\* is FALSE (cleared by another worker's win or by the interrupt handler).
C2_OnlyClearerPersists ==
    /\ [](~running => \A w \in persisters : clearedBy = ByWorker(w))
    /\ [][ (persisters' # persisters \/ id_ed25519' # id_ed25519
              \/ id_ed25519_pub' # id_ed25519_pub) => running ]_vars

\* C3: running is initially TRUE and once it is FALSE it is never TRUE again
\* (so it changes from TRUE to FALSE at most once).
C3_RunningMonotone ==
    /\ [](clearedBy = Nobody => running)
    /\ [][ running' => running ]_vars

\* C3 witness: running was cleared by a worker's win and the interrupt
\* handler stored into it afterwards as well.
C3_Witness == ~running /\ interrupted /\ \E w \in Workers : clearedBy = ByWorker(w)

\* C4: in streaming mode neither output file is ever written.
C4_StreamingNeverWrites ==
    args.streaming =>
        /\ id_ed25519 = Absent
        /\ id_ed25519_pub = Absent
        /\ persisters = {}

\* C4 witness: a streaming run in which two matches have been reported.
C4_Witness == args.streaming /\ reports >= 2

\* C5: in streaming mode no worker alters running: it becomes FALSE only
\* through the interrupt, and while no interrupt has occurred no worker
\* terminates.
C5_StreamingWorkerKeepsRunning ==
    args.streaming =>
        /\ clearedBy \in { Nobody, Interrupt }
        /\ (~running => interrupted)
        /\ (~interrupted => \A w \in Workers : ~finished(w))

\* C5 witness: a streaming worker has reported a match and has entered a
\* further iteration with running still TRUE.
C5_Witness ==
    /\ args.streaming /\ running /\ reports >= 1
    /\ \E w \in Workers : wpc[w] = "count" /\ matches = reports

\* C6: COUNTER starts at 0, never decreases, and always equals the number of
\* loop iterations entered by all workers less those whose fetch_add is still
\* to come; once every worker has ended it equals the number of attempts.
C6_CounterExact ==
    /\ [](COUNTER >= 0 /\ COUNTER = attempts - CountPending)
    /\ []((\A w \in Workers : finished(w)) => COUNTER = attempts)
    /\ [][ COUNTER' >= COUNTER ]_vars

\* C6 witness: both workers have ended after several attempts, two of them
\* made concurrently.
C6_Witness ==
    /\ \A w \in Workers : finished(w)
    /\ COUNTER = attempts /\ COUNTER >= MaxAttempts

\* C7: once running is FALSE no worker enters a new iteration (the only
\* fetch_adds left are those of workers already past the loop-entry check, so
\* COUNTER grows by at most the number of workers), a worker at its loop-entry
\* check returns, and under fair scheduling every worker ends.
C7_PromptShutdown ==
    /\ [][ ~running =>
             /\ \A w \in Workers : wpc'[w] = "count" => wpc[w] = "count"
             /\ \A w \in Workers :
                  (wpc[w] = "loop" /\ wpc'[w] # "loop") => wpc'[w] = "returned"
             /\ COUNTER' + CountPending' = COUNTER + CountPending
             /\ CountPending <= num_threads ]_vars
    /\ (~running ~> ((\A w \in Workers : finished(w)) \/ ~alive))

\* C7 witness: running is FALSE while every worker is past its loop-entry
\* check with its fetch_add still to come.
C7_Witness == ~running /\ alive /\ \A w \in Workers : wpc[w] = "count"

\* C8: the coordinator goes through Idle, Running, ShuttingDown, Joined,
\* Terminated in that order (an error exit aborts the sequence), it is Joined
\* or Terminated only when every spawned worker has returned, and after
\* "Done!" no worker changes the counter, a file or the reports.
C8_JoinBeforeCompletion ==
    /\ [][ \/ state' = state
           \/ state = Idle /\ state' = Running
           \/ state = Running /\ state' = ShuttingDown
           \/ state = ShuttingDown /\ state' = Joined
           \/ state = Joined /\ state' = Terminated
           \/ state' = Aborted /\ exit_code' \in { Exit(1), Exit(101) } ]_vars
    /\ [](state \in { Joined, Terminated } =>
             /\ handles = num_threads /\ joined = num_threads
             /\ \A w \in Workers : wpc[w] = "returned")
    /\ [](done_reported <=> state = Terminated)
    /\ [][ done_reported =>
             UNCHANGED << COUNTER, id_ed25519, id_ed25519_pub, reports, wpc >> ]_vars

\* C8 witness: completion has been reported after a worker's win.
C8_Witness ==
    /\ state = Terminated
    /\ \E w \in Workers : clearedBy = ByWorker(w)

\* C9: once running is FALSE, under fair scheduling the process ends with
\* "Done!" and status 0, unless a fatal I/O failure occurs.
C9_ShutdownLiveness ==
    ~running ~> ((state = Terminated /\ exit_code = Exit(0)) \/ io_failed)

\* C9 witness: the process has ended with status 0 after an interrupt, with
\* no I/O failure.
C9_Witness ==
    /\ exit_code = Exit(0) /\ clearedBy = Interrupt /\ ~io_failed
    /\ COUNTER >= 1

\* C10: when the pattern does not compile, no handler is installed, no
\* worker is spawned, the counter stays 0, nothing is reported or written and
\* the only exit is with status 1.
C10_ConfigError ==
    ~args.regex_ok =>
        /\ mpc \in { "compile", "exited" }
        /\ (mpc = "exited" <=> exit_code = Exit(1))
        /\ exit_code \in { NoExit, Exit(1) }
        /\ ~handler_installed /\ handles = 0
        /\ \A w \in Workers : wpc[w] = "unspawned"
        /\ running /\ COUNTER = 0 /\ attempts = 0
        /\ reports = 0 /\ matches = 0 /\ ~done_reported
        /\ id_ed25519 = Absent /\ id_ed25519_pub = Absent

\* C10 witness: the process has exited with status 1 on an invalid pattern.
C10_Witness == ~args.regex_ok /\ mpc = "exited" /\ exit_code = Exit(1)


\* C11: once a worker has hit a fatal failure (a failed write of an output
\* file) the search does not go on: no worker enters a further iteration and
\* the monitor starts no further tick.
C11_FatalErrorStopsSearch ==
    [][ (\E w \in Workers : wpc[w] = "panicked") =>
          /\ attempts' = attempts
          /\ ~(mpc = "monitor" /\ mpc' = "tick") ]_vars

\* C12: the step of the interrupt handler sets running to FALSE and changes
\* nothing else of the program (counter, files, reports, the workers' and
\* main's positions and locals); once running is FALSE (after an earlier
\* interrupt or a worker's win) it changes nothing at all.
C12_InterruptOnlyClearsFlag ==
    /\ [](interrupted => ~running)
    /\ [][ (interrupted' # interrupted) =>
             /\ ~running'
             /\ clearedBy' = (IF running THEN Interrupt ELSE clearedBy)
             /\ UNCHANGED << args, emaVars, mainVars, COUNTER, workerVars >> ]_vars
    /\ [][ CtrlC => (~running' /\ UNCHANGED << args, emaVars, mainVars, COUNTER, workerVars >>) ]_vars
    /\ [][ (CtrlC /\ ~running) => UNCHANGED << running, clearedBy >> ]_vars

\* C12 witness: the handler has run while a worker was in the middle of an
\* iteration and main was in a monitor tick.
C12_Witness ==
    /\ interrupted /\ clearedBy = Interrupt /\ mpc = "tick"
    /\ \E w \in Workers : wpc[w] = "report"


\* C13: for non-negative elapsed, value and old_value and a positive
\* time_window, the result of exp_moving_average lies between old_value and
\* value inclusive, and it equals old_value when elapsed is 0.
C13_EstimatorBounds ==
    ema_out # NoResult =>
        LET r == ema_out[1]
            lo == IF ema_in.value < ema_in.old_value THEN ema_in.value
                                                     ELSE ema_in.old_value
            hi == IF ema_in.value < ema_in.old_value THEN ema_in.old_value
                                                     ELSE ema_in.value
        IN  /\ lo <= r
            /\ r <= hi
            /\ ema_in.delta_time = 0 => r = ema_in.old_value


\* C14: a worker writes the private-key file, then the public-key file, then
\* stores false into running, then leaves its loop, in that order; so whenever
\* running is FALSE and no interrupt has occurred both files have been
\* written in full, from then on both files exist, and a run that ends with
\* "Done!" after a match leaves two complete files.
C14_PersistThenClear ==
    /\ [][ \A w \in Workers :
             /\ (wpc'[w] = "write_public" /\ wpc[w] # "write_public") =>
                   /\ wpc[w] = "write_private"
                   /\ id_ed25519' = private_key_str(key[w])
             /\ (wpc'[w] = "store" /\ wpc[w] # "store") =>
                   /\ wpc[w] = "write_public"
                   /\ id_ed25519_pub' = get_authorized_key(key[w])
                   /\ running' = running ]_vars
    /\ [][ (running /\ ~running' /\ ~interrupted') =>
             \E w \in Workers : wpc[w] = "store" /\ wpc'[w] = "returned" ]_vars
    /\ []((~running /\ ~interrupted) => written = { PrivateFile, PublicFile })
    /\ []((\E w \in Workers : clearedBy = ByWorker(w)) =>
             (id_ed25519 # Absent /\ id_ed25519_pub # Absent))
    /\ []((state = Terminated /\ \E w \in Workers : clearedBy = ByWorker(w)) =>
             /\ \E k \in Keys : id_ed25519 = private_key_str(k)
             /\ \E k \in Keys : id_ed25519_pub = get_authorized_key(k))

\* C14 witness: the run has ended with "Done!" after a worker cleared the
\* flag, with no interrupt.
C14_Witness ==
    /\ state = Terminated /\ ~interrupted /\ ~running
    /\ written = { PrivateFile, PublicFile }


\* C15: a worker's loop exits only when running is FALSE: in every state in
\* which some worker's thread has ended, running is FALSE.
C15_LoopExitsOnlyWhenCleared ==
    (\E w \in Workers : finished(w)) => ~running


\* Matching attempts whose report has not been printed yet.
ReportPending == Cardinality({ w \in Workers : wpc[w] = "report" })

\* C16: in both modes every matching attempt is reported exactly once, before
\* any file is written or the flag is cleared for that match; a non-matching
\* attempt prints no report and changes nothing but the counter.
C16_EveryMatchReported ==
    /\ [](matches = reports + ReportPending)
    /\ [][ (matches' # matches) =>
             /\ matches' = matches + 1
             /\ ReportPending' = ReportPending + 1
             /\ UNCHANGED << reports, fileVars, clearVars >> ]_vars
    /\ [][ \A w \in Workers :
             (wpc[w] = "report" /\ wpc'[w] # "report") =>
                /\ reports' = reports + 1
                /\ wpc'[w] = (IF args.streaming THEN "loop" ELSE "write_private")
                /\ UNCHANGED << fileVars, clearVars >> ]_vars
    /\ [][ \A w \in Workers :
             (wpc'[w] = "write_private" /\ wpc[w] # "write_private") =>
                wpc[w] = "report" ]_vars
    /\ [][ (COUNTER' # COUNTER /\ matches' = matches) =>
             /\ UNCHANGED << reports, fileVars, clearVars, mainVars, attempts >>
             /\ \A w \in Workers :
                  wpc'[w] # wpc[w] => (wpc[w] = "count" /\ wpc'[w] = "loop") ]_vars

\* C16 witness: one matching and one non-matching attempt have been made,
\* the match has been reported and then persisted.
C16_Witness ==
    /\ COUNTER = 2 /\ matches = 1 /\ reports = 1
    /\ written = { PrivateFile, PublicFile }


\* C17: on the very first monitor tick the smoothed rate after the tick is
\* the raw counter value read at that tick; on every later tick it is the
\* result of feeding the delta (current - previous counter) and the previous
\* smoothed rate to exp_moving_average, never a re-seeded value.
C17_FirstTickSeeding ==
    [][ (mpc = "tick" /\ mpc' = "monitor") =>
          IF ~ticked
            THEN avg_key_rate' = to_f64(COUNTER)
            ELSE \E elapsed \in Elapsed :
                   avg_key_rate' = exp_moving_average(
                                     to_f64(COUNTER - old_counter), avg_key_rate,
                                     elapsed, monitor_time_window) ]_vars


\* C18: in non-streaming mode, whenever the coordinator has terminated after
\* a match, id_ed25519 and id_ed25519.pub hold the private and the public
\* half of one and the same generated keypair.
C18_FilesFormOneKeypair ==
    (state = Terminated /\ \E w \in Workers : clearedBy = ByWorker(w)) =>
        \E k \in Keys :
            /\ id_ed25519 = private_key_str(k)
            /\ id_ed25519_pub = get_authorized_key(k)


\* C19: at every monitor tick the delta fed to exp_moving_average
\* (current_counter - old_counter) is non-negative, old_counter never exceeds
\* COUNTER, and the deltas fed so far add up to the counter value read at the
\* latest tick.
C19_SamplesConsistent ==
    /\ [](old_counter <= COUNTER)
    /\ [](delta_sum = old_counter)
    /\ [][ (mpc = "tick" /\ mpc' = "monitor") =>
             /\ COUNTER - old_counter >= 0
             /\ delta_sum' = delta_sum + (COUNTER - old_counter)
             /\ old_counter' = COUNTER ]_vars

\* C19 witness: the monitor has sampled the counter at 2 and a later tick has
\* blended the rate down to half of that.
C19_Witness ==
    /\ ticked /\ mpc = "monitor"
    /\ old_counter = 2 /\ delta_sum = 2
    /\ avg_key_rate = to_f64(1)

====
